---- MODULE Spec2Model ----
(***************************************************************************)
(* Model of data-platform-core: the two data tool adapters (tools.py), the *)
(* tool-routing agent and chat gateway (agent.py, main.py) and the chart   *)
(* extraction heuristic of the dashboard (data-platform-ui/app.py).        *)
(*                                                                         *)
(* Texts are sequences of one-character strings, so that the regular       *)
(* expressions of app.py are matched character by character.               *)
(***************************************************************************)
EXTENDS Integers, Sequences, FiniteSets, TLC

VARIABLES
    pc,          \* position of the process the specification is about
    answer,      \* UI / chart: the answer text being rendered
    fig,         \* UI / chart: result of parse_and_plot (NoFig or the sorted frame)
    ticks,       \* UI / chart: the pairs re-extracted by the metrics step
    metrics,     \* UI / chart: the displayed metrics (NoMetrics or a record)
    usedB,       \* chart: whether parse_and_plot evaluated pattern B
    messages,    \* UI: st.session_state.messages
    tool_used,   \* UI: tool_used of the current turn
    histShown,   \* UI: metrics shown by the history loop of the last script run
    pairs,       \* round trip: the list of (date, price) pairs that is formatted
    request,     \* gateway: the ChatRequest being served
    steps,       \* gateway: intermediate_steps of the agent run
    scratch,     \* gateway: the tool call the agent has decided on, not yet run
    netCalls,    \* gateway: outbound calls to upstream data services
    agentCalls,  \* gateway: invocations of agent_executor for the request
    output,      \* gateway: result["output"] of the agent run
    raised,      \* gateway: the exception caught by chat_endpoint's except clause
    response,    \* gateway: the HTTP response of chat_endpoint
    call,        \* adapters: the adapter call and the upstream outcome
    result       \* adapters: what the adapter call produced

vars == <<pc, answer, fig, ticks, metrics, usedB, messages, tool_used, histShown,
          pairs, request, steps, scratch, netCalls, agentCalls, output, raised, response,
          call, result>>

chartVars == <<answer, fig, ticks, metrics, usedB>>
uiVars == <<messages, tool_used, histShown>>
gatewayVars == <<request, steps, scratch, netCalls, agentCalls, output, raised, response>>
adapterVars == <<call, result>>

None == "None"

(***************************************************************************)
(* Characters and the character classes of Python's re module              *)
(***************************************************************************)
Digits == {"0", "1", "2", "3", "4", "5", "6", "7", "8", "9"}

IsDigit(c) == c \in Digits

\* \s : the whitespace characters that occur in the modelled texts
IsSpace(c) == c \in {" ", "\n"}

\* [:\s]
IsSep(c) == c = ":" \/ IsSpace(c)

\* code point order of the characters a captured date can contain
Ord(c) ==
    CASE c = " " -> 32
      [] c = "-" -> 45
      [] c = "0" -> 48 [] c = "1" -> 49 [] c = "2" -> 50 [] c = "3" -> 51
      [] c = "4" -> 52 [] c = "5" -> 53 [] c = "6" -> 54 [] c = "7" -> 55
      [] c = "8" -> 56 [] c = "9" -> 57
      [] c = ":" -> 58
      [] OTHER -> 0

DigitVal(c) == Ord(c) - 48

\* the character at position i, or "" past the end of the text
At(t, i) == IF i >= 1 /\ i <= Len(t) THEN t[i] ELSE ""

Slice(t, i, j) == SubSeq(t, i, j - 1)

\* "\n".join(lines)
RECURSIVE JoinLines(_)
JoinLines(ls) ==
    IF ls = <<>> THEN <<>>
    ELSE IF Len(ls) = 1 THEN ls[1]
    ELSE ls[1] \o <<"\n">> \o JoinLines(Tail(ls))

\* str comparison a < b (lexicographic by code point)
RECURSIVE StrLess(_, _)
StrLess(a, b) ==
    IF b = <<>> THEN FALSE
    ELSE IF a = <<>> THEN TRUE
    ELSE IF Ord(Head(a)) # Ord(Head(b)) THEN Ord(Head(a)) < Ord(Head(b))
    ELSE StrLess(Tail(a), Tail(b))

StrLeq(a, b) == a = b \/ StrLess(a, b)

(***************************************************************************)
(* The two regular expressions of app.py, matched as re.findall does       *)
(***************************************************************************)
\* \d{4}-\d{2}-\d{2} at position i
DateAt(t, i) ==
    /\ \A k \in {0, 1, 2, 3, 5, 6, 8, 9} : IsDigit(At(t, i + k))
    /\ At(t, i + 4) = "-"
    /\ At(t, i + 7) = "-"

\* \s\d{2}:\d{2}:\d{2} at position i
TimeAt(t, i) ==
    /\ IsSpace(At(t, i))
    /\ \A k \in {1, 2, 4, 5, 7, 8} : IsDigit(At(t, i + k))
    /\ At(t, i + 3) = ":"
    /\ At(t, i + 6) = ":"

\* first position >= i that holds no digit (greedy \d*)
RECURSIVE DigitsEnd(_, _)
DigitsEnd(t, i) == IF IsDigit(At(t, i)) THEN DigitsEnd(t, i + 1) ELSE i

\* first position >= i that holds no [:\s] character (greedy [:\s]*)
RECURSIVE SepEnd(_, _)
SepEnd(t, i) == IF IsSep(At(t, i)) THEN SepEnd(t, i + 1) ELSE i

\* first position >= i that holds no whitespace (greedy \s*)
RECURSIVE SpaceEnd(_, _)
SpaceEnd(t, i) == IF IsSpace(At(t, i)) THEN SpaceEnd(t, i + 1) ELSE i

\* end of \d+\.?\d* matched at i, or 0 when it does not match
NumberEnd(t, i) ==
    IF ~IsDigit(At(t, i)) THEN 0
    ELSE LET j == DigitsEnd(t, i)
             k == IF At(t, j) = "." THEN j + 1 ELSE j
         IN  DigitsEnd(t, k)

NoMatch == [ok |-> FALSE, end |-> 0, date |-> <<>>, price |-> <<>>]

\* [:\s]+(?:\$)?(\d+\.?\d*) matched at j, after a date that spans d0 .. j-1
TailA(t, d0, j) ==
    LET s == SepEnd(t, j)
        p == IF At(t, s) = "$" THEN s + 1 ELSE s
        e == NumberEnd(t, p)
    IN  IF s = j \/ e = 0 THEN NoMatch
        ELSE [ok |-> TRUE, end |-> e, date |-> Slice(t, d0, j), price |-> Slice(t, p, e)]

\* pattern A at position i: the optional time group is tried first and given
\* up when the rest of the pattern does not match after it
MatchA(t, i) ==
    IF ~DateAt(t, i) THEN NoMatch
    ELSE IF TimeAt(t, i + 10) /\ TailA(t, i, i + 19).ok THEN TailA(t, i, i + 19)
    ELSE TailA(t, i, i + 10)

\* re.findall(pattern A, t) from position i on: (date, price) tuples
RECURSIVE FindAllA(_, _)
FindAllA(t, i) ==
    IF i > Len(t) THEN <<>>
    ELSE LET m == MatchA(t, i)
         IN  IF m.ok THEN <<(<<m.date, m.price>>)>> \o FindAllA(t, m.end)
             ELSE FindAllA(t, i + 1)

\* the connector words of pattern B
ConnOn == <<"o", "n">>
ConnFor == <<"f", "o", "r">>
ConnAt == <<"a", "t">>
ConnAsOf == <<"a", "s", " ", "o", "f">>

\* (?:on|for|at|as of) at parse_and_plot, (?:on|for|at) at the metrics steps
PlotConnectors == <<ConnOn, ConnFor, ConnAt, ConnAsOf>>
MetricsConnectors == <<ConnOn, ConnFor, ConnAt>>

WordAt(t, i, w) == \A k \in 1..Len(w) : At(t, i + k - 1) = w[k]

\* end of the first alternative of conns that matches at i, or 0
RECURSIVE ConnEnd(_, _, _)
ConnEnd(t, i, conns) ==
    IF conns = <<>> THEN 0
    ELSE IF WordAt(t, i, Head(conns)) /\ IsSpace(At(t, i + Len(Head(conns))))
         THEN i + Len(Head(conns))
    ELSE ConnEnd(t, i, Tail(conns))

\* pattern B at position i: (?:\$)?(\d+\.?\d*)\s+(?:conns)\s+(date(?:\stime)?)
MatchB(t, i, conns) ==
    LET p  == IF At(t, i) = "$" THEN i + 1 ELSE i
        e  == NumberEnd(t, p)
        s1 == SpaceEnd(t, e)
        c  == ConnEnd(t, s1, conns)
        s2 == SpaceEnd(t, c)
        de == IF TimeAt(t, s2 + 10) THEN s2 + 19 ELSE s2 + 10
    IN  IF e = 0 \/ s1 = e \/ c = 0 \/ s2 = c \/ ~DateAt(t, s2) THEN NoMatch
        ELSE [ok |-> TRUE, end |-> de, date |-> Slice(t, s2, de), price |-> Slice(t, p, e)]

\* re.findall(pattern B, t) from position i on: (price, date) tuples
RECURSIVE FindAllB(_, _, _)
FindAllB(t, i, conns) ==
    IF i > Len(t) THEN <<>>
    ELSE LET m == MatchB(t, i, conns)
         IN  IF m.ok THEN <<(<<m.price, m.date>>)>> \o FindAllB(t, m.end, conns)
             ELSE FindAllB(t, i + 1, conns)

(***************************************************************************)
(* pandas: to_numeric, DataFrame, sort_values                              *)
(***************************************************************************)
\* number of fractional digits the fixed-point prices of the model keep
FracDigits == 2

RECURSIVE Pow10(_)
Pow10(n) == IF n = 0 THEN 1 ELSE 10 * Pow10(n - 1)

\* value of a string of decimal digits ("" is 0)
RECURSIVE IntVal(_)
IntVal(ds) == IF ds = <<>> THEN 0 ELSE IntVal(SubSeq(ds, 1, Len(ds) - 1)) * 10 + DigitVal(ds[Len(ds)])

\* the first n digits of the fractional part fs, padded with zeros
PadFrac(fs, n) == [k \in 1..n |-> IF k <= Len(fs) THEN fs[k] ELSE "0"]

\* pd.to_numeric of a string \d+\.?\d*, in units of 10^-FracDigits
ToNumeric(p) ==
    LET j == DigitsEnd(p, 1)
        fs == IF At(p, j) = "." THEN Slice(p, j + 1, Len(p) + 1) ELSE <<>>
    IN  IntVal(Slice(p, 1, j)) * Pow10(FracDigits) + IntVal(PadFrac(fs, FracDigits))

\* pd.DataFrame(matches, columns=["Date", "Price"]) with df["Price"] = pd.to_numeric(...)
Frame(matches) == [i \in 1..Len(matches) |-> [Date |-> matches[i][1], Price |-> ToNumeric(matches[i][2])]]

IsSortedByDate(df) == \A i \in 1..(Len(df) - 1) : StrLeq(df[i].Date, df[i + 1].Date)

Perms(n) == {f \in [1..n -> 1..n] : \A i, j \in 1..n : i # j => f[i] # f[j]}

\* SortValues with the sort left out: the rows stay in the order of the text
SortValuesKeepOrder(df) == {df}

\* df.sort_values("Date"): the rows in ascending Date order; the default sort
\* kind is not stable, so rows with equal dates may come out in any order
SortValues(df) ==
    {[i \in 1..Len(df) |-> df[f[i]]] : f \in {g \in Perms(Len(df)) : IsSortedByDate([i \in 1..Len(df) |-> df[g[i]]])}}

\* df["Price"].max()
RECURSIVE MaxPrice(_)
MaxPrice(df) ==
    IF Len(df) = 1 THEN df[1].Price
    ELSE LET m == MaxPrice(Tail(df)) IN IF df[1].Price >= m THEN df[1].Price ELSE m

(***************************************************************************)
(* app.py: parse_and_plot and the metrics step of a turn                   *)
(***************************************************************************)
\* [(d, p) for p, d in conv_matches]
Swap(conv) == [i \in 1..Len(conv) |-> <<conv[i][2], conv[i][1]>>]

\* PlotMatches with the patterns tried in the other order: B first, A only
\* when B has no match
PlotMatchesBFirst(text) ==
    LET conv_matches == FindAllB(text, 1, PlotConnectors)
    IN  IF conv_matches # <<>> THEN Swap(conv_matches) ELSE FindAllA(text, 1)

\* the matches parse_and_plot charts: pattern A, else pattern B swapped
PlotMatches(text) ==
    LET matches == FindAllA(text, 1)
    IN  IF matches # <<>> THEN matches
        ELSE LET conv_matches == FindAllB(text, 1, PlotConnectors)
             IN  IF conv_matches # <<>> THEN Swap(conv_matches) ELSE <<>>

\* whether parse_and_plot evaluates pattern B on the text
PlotTriesB(text) == FindAllA(text, 1) = <<>>

\* "return None" of parse_and_plot: no figure (a figure has at least one row)
NoFig == <<>>

\* parse_and_plot(text): the figures it can return (the sorted frame), or None
parse_and_plot(text) ==
    IF PlotMatches(text) # <<>> THEN SortValues(Frame(PlotMatches(text))) ELSE {NoFig}

\* ticks = re.findall(A, text) or [(d, p) for p, d in re.findall(B', text)]
MetricTicks(text) ==
    LET a == FindAllA(text, 1)
    IN  IF a # <<>> THEN a ELSE Swap(FindAllB(text, 1, MetricsConnectors))

\* latest, prev, delta and high of a sorted, non-empty frame
MetricsOf(df) ==
    LET latest == df[Len(df)].Price
        prev == IF Len(df) > 1 THEN df[1].Price ELSE latest
    IN  [latest |-> latest, prev |-> prev, delta |-> latest - prev, high |-> MaxPrice(df)]

(***************************************************************************)
(* Answer texts: lines of the shapes the agent's answers take              *)
(***************************************************************************)
D20 == <<"2", "0", "2", "5", "-", "0", "1", "-", "2", "0">>
D21 == <<"2", "0", "2", "5", "-", "0", "1", "-", "2", "1">>
Clock == <<" ", "1", "6", ":", "0", "0", ":", "0", "0">>
P9 == <<"9", ".", "5">>
P230 == <<"2", "3", "0", ".", "5", "0">>

SampleDates == {D20, D21}
SamplePrices == {P9, P230}

\* FormatLine with a dash for the colon: "<date> - $<price>"
FormatLineDash(d, p) == d \o <<" ", "-", " ", "$">> \o p

\* f"{timestamp}: ${price}"
FormatLine(d, p) == d \o <<":", " ", "$">> \o p

\* "$<price> <connector> <date>"
Phrase(p, conn, d) == <<"$">> \o p \o <<" ">> \o conn \o <<" ">> \o d

Noise == <<"n", "/", "a">>

Items ==
    {FormatLine(d, p) : d \in SampleDates, p \in SamplePrices}
    \cup {FormatLine(d \o Clock, p) : d \in SampleDates, p \in SamplePrices}
    \cup {Phrase(p, c, d) : p \in SamplePrices, c \in {ConnOn, ConnFor, ConnAt, ConnAsOf}, d \in SampleDates}
    \cup {Noise, D20 \o Clock}

\* the texts of at most n lines
TextsUpTo(n) == {JoinLines(ls) : ls \in UNION {[1..k -> Items] : k \in 0..n}}

\* lines per answer text in the chart specification
MaxItems == 2

(***************************************************************************)
(* SpecChart: the chart extraction and the metrics step on one answer text *)
(***************************************************************************)
NoMetrics == [latest |-> -1, prev |-> -1, delta |-> 0, high |-> -1]

\* the variables of the gateway and of the adapters, where they play no part
GatewayIdle ==
    /\ request = None /\ steps = <<>> /\ scratch = None /\ netCalls = 0
    /\ agentCalls = 0 /\ output = None /\ raised = None /\ response = None

AdaptersIdle == call = None /\ result = None

InitChart ==
    /\ pc = "start"
    /\ answer \in TextsUpTo(MaxItems)
    /\ fig = NoFig /\ ticks = <<>> /\ metrics = NoMetrics /\ usedB = FALSE
    /\ messages = <<>> /\ tool_used = None /\ histShown = <<>>
    /\ pairs = <<>>
    /\ GatewayIdle /\ AdaptersIdle

\* fig = parse_and_plot(answer)
ChartParse ==
    /\ pc = "start"
    /\ \E f \in parse_and_plot(answer) :
        /\ fig' = f
        /\ pc' = IF f = NoFig THEN "done" ELSE "metrics"
    /\ usedB' = PlotTriesB(answer)
    /\ UNCHANGED <<answer, ticks, metrics, uiVars, pairs, gatewayVars, adapterVars>>

\* the "if fig:" block: re-parse, sort, compute the metrics; df_plot.iloc[-1]
\* raises IndexError on an empty frame
ChartMetrics ==
    /\ pc = "metrics"
    /\ ticks' = MetricTicks(answer)
    /\ IF ticks' = <<>>
       THEN /\ pc' = "IndexError"
            /\ metrics' = metrics
       ELSE /\ \E df \in SortValues(Frame(ticks')) : metrics' = MetricsOf(df)
            /\ pc' = "done"
    /\ UNCHANGED <<answer, fig, usedB, uiVars, pairs, gatewayVars, adapterVars>>

NextChart == ChartParse \/ ChartMetrics

SpecChart == InitChart /\ [][NextChart]_vars

\* the rows of frame a are the rows of frame b, in some order
IsPermutationOf(a, b) ==
    /\ Len(a) = Len(b)
    /\ \E f \in Perms(Len(a)) : \A i \in 1..Len(a) : a[i] = b[f[i]]

C7_PatternAThenB ==
    (pc # "start") =>
        LET a == FindAllA(answer, 1)
            b == FindAllB(answer, 1, PlotConnectors)
        IN  /\ usedB <=> (a = <<>>)
            /\ a # <<>> => IsPermutationOf(fig, Frame(a))
            /\ (a = <<>> /\ b # <<>>) =>
                   IsPermutationOf(fig, [i \in 1..Len(b) |-> [Date |-> b[i][2], Price |-> ToNumeric(b[i][1])]])
            /\ (a = <<>> /\ b = <<>>) => fig = NoFig

\* pattern B fired on a text that pattern A does not match
C7_Witness ==
    /\ pc = "done"
    /\ usedB
    /\ fig # NoFig
    /\ fig[1].Date \in SampleDates
    /\ fig[1].Price = ToNumeric(P230)

\* pattern A matched on a text that pattern B matches too
C7_WitnessBoth ==
    /\ pc = "done"
    /\ ~usedB
    /\ FindAllB(answer, 1, PlotConnectors) # <<>>

(***************************************************************************)
(* SpecRoundTrip: format a list of pairs as the intraday adapter does,     *)
(* then extract the pairs again                                            *)
(***************************************************************************)
P233 == <<"2", "3", "3">>

RoundTripDates == {D20, D21, D20 \o Clock}
RoundTripPrices == {P9, P230, P233}

\* pairs per formatted text in the round trip specification
MaxPairs == 2

InitRoundTrip ==
    /\ pc = "start"
    /\ pairs \in UNION {[1..k -> RoundTripDates \X RoundTripPrices] : k \in 0..MaxPairs}
    /\ answer = <<>>
    /\ fig = NoFig /\ ticks = <<>> /\ metrics = NoMetrics /\ usedB = FALSE
    /\ messages = <<>> /\ tool_used = None /\ histShown = <<>>
    /\ GatewayIdle /\ AdaptersIdle

\* "\n".join of the lines "<date>: $<price>"
RoundTripFormat ==
    /\ pc = "start"
    /\ answer' = JoinLines([i \in 1..Len(pairs) |-> FormatLine(pairs[i][1], pairs[i][2])])
    /\ pc' = "formatted"
    /\ UNCHANGED <<fig, ticks, metrics, usedB, uiVars, pairs, gatewayVars, adapterVars>>

\* the extraction of parse_and_plot on the formatted text
RoundTripExtract ==
    /\ pc = "formatted"
    /\ ticks' = PlotMatches(answer)
    /\ usedB' = PlotTriesB(answer)
    /\ pc' = "extracted"
    /\ UNCHANGED <<answer, fig, metrics, uiVars, pairs, gatewayVars, adapterVars>>

NextRoundTrip == RoundTripFormat \/ RoundTripExtract

SpecRoundTrip == InitRoundTrip /\ [][NextRoundTrip]_vars

\* C6: extracting from the text formatted from a list of pairs yields that list.
C6_RoundTrip == (pc = "extracted") => ticks = pairs

\* a list of two pairs, one with a timestamp, was formatted and extracted
C6_Witness ==
    /\ pc = "extracted"
    /\ Len(pairs) = 2
    /\ pairs[1][1] = D20 \o Clock
    /\ pairs[2][2] = P233
    /\ Len(ticks) = 2

(***************************************************************************)
(* SpecUI: the dashboard script (app.py) over one browser session          *)
(***************************************************************************)
\* lines per answer text, and turns per session, in the dashboard specification
MaxAnswerLines == 1
MaxTurns == 2

Query == <<"q">>

ToolLabels == {None, "fetch_daily_data", "fetch_realtime_data"}

UserMessage(q) == [role |-> "user", content |-> q, tool_used |-> None, chart_data |-> NoFig]

AssistantMessage(a, t, f) == [role |-> "assistant", content |-> a, tool_used |-> t, chart_data |-> f]

\* the history loop: per message, the metrics it can show (NoMetrics when it
\* shows none: no chart_data, or "if not df_hist.empty" fails)
HistoryMetricsOf(m) ==
    IF m.chart_data = NoFig \/ MetricTicks(m.content) = <<>> THEN {NoMetrics}
    ELSE {MetricsOf(df) : df \in SortValues(Frame(MetricTicks(m.content)))}

RECURSIVE HistoryShown(_)
HistoryShown(msgs) ==
    IF msgs = <<>> THEN {<<>>}
    ELSE {<<h>> \o r : h \in HistoryMetricsOf(Head(msgs)), r \in HistoryShown(Tail(msgs))}

InitUI ==
    /\ pc = "idle"
    /\ messages = <<>>
    /\ answer = <<>> /\ tool_used = None
    /\ fig = NoFig /\ ticks = <<>> /\ metrics = NoMetrics /\ usedB = FALSE
    /\ histShown = <<>>
    /\ pairs = <<>>
    /\ GatewayIdle /\ AdaptersIdle

\* a script run with a chat input: the history is rendered, the user message is
\* shown and appended, and the request is posted to the gateway
UISubmit ==
    /\ pc \in {"idle", "IndexError"}
    /\ Len(messages) + 2 <= 2 * MaxTurns
    /\ histShown' \in HistoryShown(messages)
    /\ messages' = Append(messages, UserMessage(Query))
    /\ answer' = <<>> /\ tool_used' = None
    /\ fig' = NoFig /\ ticks' = <<>> /\ metrics' = NoMetrics
    /\ pc' = "posting"
    /\ UNCHANGED <<usedB, pairs, gatewayVars, adapterVars>>

\* the gateway answers 2xx: answer and tool_used are taken from the body
UIReply ==
    /\ pc = "posting"
    /\ \E a \in TextsUpTo(MaxAnswerLines), t \in ToolLabels :
        /\ answer' = a
        /\ tool_used' = t
    /\ pc' = "render"
    /\ UNCHANGED <<fig, ticks, metrics, usedB, messages, histShown, pairs, gatewayVars, adapterVars>>

\* a non-2xx answer, a network error or the 60 s timeout: st.error, st.stop
UIFail ==
    /\ pc = "posting"
    /\ pc' = "idle"
    /\ UNCHANGED <<chartVars, uiVars, pairs, gatewayVars, adapterVars>>

\* the results are rendered: parse_and_plot; with a figure, the metrics step
\* (df_plot.iloc[-1] raises IndexError on an empty frame, which ends the script
\* run); then the assistant message is appended to the session state
UIRender ==
    /\ pc = "render"
    /\ \E f \in parse_and_plot(answer) :
        /\ fig' = f
        /\ usedB' = PlotTriesB(answer)
        /\ IF f = NoFig
           THEN /\ UNCHANGED <<ticks, metrics>>
                /\ messages' = Append(messages, AssistantMessage(answer, tool_used, f))
                /\ pc' = "idle"
           ELSE /\ ticks' = MetricTicks(answer)
                /\ IF ticks' = <<>>
                   THEN /\ pc' = "IndexError"
                        /\ UNCHANGED <<metrics, messages>>
                   ELSE /\ \E df \in SortValues(Frame(ticks')) : metrics' = MetricsOf(df)
                        /\ messages' = Append(messages, AssistantMessage(answer, tool_used, f))
                        /\ pc' = "idle"
    /\ UNCHANGED <<answer, tool_used, histShown, pairs, gatewayVars, adapterVars>>

\* the "Clear Context" button: the history is emptied and the script reruns
UIClear ==
    /\ pc \in {"idle", "IndexError"}
    /\ messages # <<>>
    /\ messages' = <<>>
    /\ histShown' = <<>>
    /\ answer' = <<>> /\ tool_used' = None
    /\ fig' = NoFig /\ ticks' = <<>> /\ metrics' = NoMetrics
    /\ pc' = "idle"
    /\ UNCHANGED <<usedB, pairs, gatewayVars, adapterVars>>

NextUI == UISubmit \/ UIReply \/ UIFail \/ UIRender \/ UIClear

SpecUI == InitUI /\ [][NextUI]_vars

\* a turn whose answer was rendered with a chart has ended
ChartedTurnOver == fig # NoFig /\ pc \in {"idle", "IndexError"}

\* C10: when parse_and_plot produced a chart, the metrics step works on the
\* charted pairs, the turn completes and the assistant message with the answer
\* is the last message of the session history.
C10_ChartedTurnCompletes ==
    ChartedTurnOver =>
        /\ pc = "idle"
        /\ IsPermutationOf(Frame(ticks), fig)
        /\ messages # <<>>
        /\ messages[Len(messages)] = AssistantMessage(answer, tool_used, fig)

(***************************************************************************)
(* tools.py: the two data tool adapters                                    *)
(***************************************************************************)
\* "Error"
ErrorWord == <<"E", "r", "r", "o", "r">>

\* "Error fetching daily data: "
DailyErrorPrefix ==
    <<"E", "r", "r", "o", "r", " ", "f", "e", "t", "c", "h", "i", "n", "g", " ", "d", "a",
      "i", "l", "y", " ", "d", "a", "t", "a", ":", " ">>

\* "Error fetching real-time data: "
RealtimeErrorPrefix ==
    <<"E", "r", "r", "o", "r", " ", "f", "e", "t", "c", "h", "i", "n", "g", " ", "r", "e",
      "a", "l", "-", "t", "i", "m", "e", " ", "d", "a", "t", "a", ":", " ">>

Ticker == <<"I", "B", "M">>

Intervals == {<<"1", "m", "i", "n">>, <<"5", "m", "i", "n">>}

\* f"Real-time data for {ticker} ({interval} intervals):"
Header(ticker, interval) ==
    <<"R", "e", "a", "l", "-", "t", "i", "m", "e", " ", "d", "a", "t", "a", " ", "f", "o",
      "r", " ">> \o ticker \o <<" ", "(">> \o interval
    \o <<" ", "i", "n", "t", "e", "r", "v", "a", "l", "s", ")", ":">>

\* f"Could not find intraday data for {ticker}. Alpha Vantage Note: {note}"
NotFound(ticker, note) ==
    <<"C", "o", "u", "l", "d", " ", "n", "o", "t", " ", "f", "i", "n", "d", " ", "i", "n",
      "t", "r", "a", "d", "a", "y", " ", "d", "a", "t", "a", " ", "f", "o", "r", " ">> \o ticker \o
    <<".", " ", "A", "l", "p", "h", "a", " ", "V", "a", "n", "t", "a", "g", "e", " ", "N",
      "o", "t", "e", ":", " ">> \o <<note>>

\* w occurs in t ("w in t" of Python)
Contains(t, w) == \E i \in 1..Len(t) : WordAt(t, i, w)

\* the subclasses of requests.exceptions.RequestException the adapters can meet
RequestExceptions == {"ConnectionError", "ConnectTimeout", "HTTPError", "RequestsJSONDecodeError"}

\* except requests.exceptions.RequestException
IsRequestException(e) == e \in RequestExceptions

Returned(v) == [kind |-> "return", value |-> v, exc |-> None]
Raised(e) == [kind |-> "raise", value |-> <<>>, exc |-> e]

\* str(e) as it appears in a returned string or in the detail of a response
StrOf(e) == "str(" \o e \o ")"

\* the upstream outcomes of the single HTTP call of an adapter: the transport
\* fails, the status is an error status, or a 2xx response carries a body
NoSeries == [n |-> 0, order |-> "none", missing |-> 0]
Upstream(s, b, ser) == [status |-> s, body |-> b, series |-> ser]

TransportFailures == {"unreachable", "timeout"}

DailyUpstreams ==
    {Upstream(s, "none", NoSeries) : s \in TransportFailures \cup {"http_error"}}
    \cup {Upstream("ok", b, NoSeries) : b \in {"json", "not_json", "deep_json"}}

\* the exceptions the try block of fetch_daily_data can raise on an outcome
\* (None: it raises nothing). Response.json() raises requests' JSONDecodeError,
\* a RequestException, from requests 2.27 on and a plain ValueError before; the
\* json scanner raises RecursionError on a body nested too deep, in any version
DailyRaises(up) ==
    CASE up.status = "unreachable" -> {"ConnectionError"}
      [] up.status = "timeout" -> {"ConnectTimeout"}
      [] up.status = "http_error" -> {"HTTPError"}
      [] up.body = "not_json" -> {"RequestsJSONDecodeError", "ValueError"}
      [] up.body = "deep_json" -> {"RecursionError"}
      [] OTHER -> {None}

\* json.dumps(response.json()): the body re-serialised, kept as one opaque token
DumpedBody == <<"json.dumps(body)">>

\* fetch_daily_data(ticker, start_date, end_date, tenant_id): what the call can produce
fetch_daily_data(tenant_id, up) ==
    {IF e = None THEN Returned(DumpedBody)
     ELSE IF IsRequestException(e) THEN Returned(DailyErrorPrefix \o <<StrOf(e)>>)
     ELSE Raised(e) : e \in DailyRaises(up)}

\* the URL path of the internal query service: /api/query/<tenant_id>/DAILY
DailyPath(tenant_id) == <<"api", "query", tenant_id, "DAILY">>

\* the points of an intraday series are numbered by age: point n is the newest.
\* Its timestamp is 2025-01-20 16:<n>:00 and its close price one of two values
TwoDigits(k) == <<CHOOSE c \in Digits : DigitVal(c) = k \div 10, CHOOSE c \in Digits : DigitVal(c) = k % 10>>

Timestamp(k) == D20 \o <<" ", "1", "6", ":">> \o TwoDigits(k) \o <<":", "0", "0">>

Close(k) == IF k % 2 = 0 THEN P9 ELSE P230

\* list(series.items()): the points in payload order, each [ts, close, has_close]
SeriesItems(ser) ==
    [i \in 1..ser.n |->
        LET k == IF ser.order = "newest_first" THEN ser.n + 1 - i ELSE i
        IN  [ts |-> Timestamp(k), close |-> Close(k), has_close |-> i # ser.missing]]

\* recent_points = list(series.items())[:10]
RecentLimit == 10

\* points per intraday series of the adapter specification
MaxPoints == 11

RealtimeUpstreams(maxPoints) ==
    {Upstream(s, "none", NoSeries) : s \in TransportFailures \cup {"http_error"}}
    \cup {Upstream("ok", b, NoSeries) : b \in {"not_json", "note", "error_message", "no_key", "not_dict"}}
    \cup {Upstream("ok", "series", [n |-> n, order |-> o, missing |-> m]) :
            n \in 0..maxPoints, o \in {"newest_first", "oldest_first"}, m \in 0..1}

\* the first exception the try block of fetch_realtime_data raises before the
\* series is read (None: it raises nothing)
RealtimeRaises(up) ==
    CASE up.status = "unreachable" -> "ConnectionError"
      [] up.status = "timeout" -> "ConnectTimeout"
      [] up.status = "http_error" -> "HTTPError"
      [] up.body = "not_json" -> "RequestsJSONDecodeError"
      [] up.body = "not_dict" -> "AttributeError"
      [] OTHER -> None

\* data.get('Note', data.get('Error Message', 'Unknown error'))
NoteOf(up) ==
    CASE up.body = "note" -> "Note"
      [] up.body = "error_message" -> "Error Message"
      [] OTHER -> "Unknown error"

Take(seq, n) == SubSeq(seq, 1, IF Len(seq) < n THEN Len(seq) ELSE n)

\* fetch_realtime_data(ticker, interval): what the call produces
fetch_realtime_data(ticker, interval, up) ==
    LET e == RealtimeRaises(up)
        recent_points == Take(SeriesItems(up.series), RecentLimit)
        formatted_results ==
            <<Header(ticker, interval)>>
            \o [i \in 1..Len(recent_points) |-> FormatLine(recent_points[i].ts, recent_points[i].close)]
    IN  IF e # None THEN Returned(RealtimeErrorPrefix \o <<StrOf(e)>>)
        ELSE IF up.body # "series" THEN Returned(NotFound(ticker, NoteOf(up)))
        ELSE IF \E i \in 1..Len(recent_points) : ~recent_points[i].has_close
             THEN Returned(RealtimeErrorPrefix \o <<StrOf("KeyError")>>)
        ELSE Returned(JoinLines(formatted_results))

(***************************************************************************)
(* SpecAdapters: one adapter call at a time, on any upstream outcome       *)
(***************************************************************************)
Tenants == {"IBM", "ACME"}
DefaultTenant == "DEFAULT"

NoCall == [tool |-> None, tenant_id |-> None, interval |-> <<>>, up |-> Upstream("none", "none", NoSeries)]
NoResult == [kind |-> None, value |-> <<>>, exc |-> None]

InitAdapters ==
    /\ pc = "idle"
    /\ call = NoCall /\ result = NoResult
    /\ answer = <<>> /\ fig = NoFig /\ ticks = <<>> /\ metrics = NoMetrics /\ usedB = FALSE
    /\ messages = <<>> /\ tool_used = None /\ histShown = <<>>
    /\ pairs = <<>>
    /\ GatewayIdle

CallDaily ==
    /\ pc = "idle"
    /\ \E t \in Tenants \cup {DefaultTenant}, up \in DailyUpstreams :
        /\ call' = [tool |-> "fetch_daily_data", tenant_id |-> t, interval |-> <<>>, up |-> up]
        /\ result' \in fetch_daily_data(t, up)
    /\ pc' = "called"
    /\ UNCHANGED <<chartVars, uiVars, pairs, gatewayVars>>

CallRealtime ==
    /\ pc = "idle"
    /\ \E i \in Intervals, up \in RealtimeUpstreams(MaxPoints) :
        /\ call' = [tool |-> "fetch_realtime_data", tenant_id |-> None, interval |-> i, up |-> up]
        /\ result' = fetch_realtime_data(Ticker, i, up)
    /\ pc' = "called"
    /\ UNCHANGED <<chartVars, uiVars, pairs, gatewayVars>>

\* the caller has taken the result; the adapters keep no state between calls
CallOver ==
    /\ pc = "called"
    /\ pc' = "idle"
    /\ call' = NoCall /\ result' = NoResult
    /\ UNCHANGED <<chartVars, uiVars, pairs, gatewayVars>>

NextAdapters == CallDaily \/ CallRealtime \/ CallOver

SpecAdapters == InitAdapters /\ [][NextAdapters]_vars

\* C1: on every upstream outcome both adapters return a string and raise
\* nothing, and on a transport failure the returned string contains "Error".
C1_AdaptersNeverRaise ==
    (pc = "called") =>
        /\ result.kind = "return"
        /\ call.up.status \in TransportFailures => Contains(result.value, ErrorWord)

\* "text".split("\n")
SplitLines(t) ==
    LET nl == {i \in 1..Len(t) : t[i] = "\n"}
        nth(k) == CHOOSE p \in nl : Cardinality({j \in nl : j <= p}) = k
        first(k) == IF k = 1 THEN 1 ELSE nth(k - 1) + 1
        last(k) == IF k = Cardinality(nl) + 1 THEN Len(t) ELSE nth(k) - 1
    IN  [k \in 1..(Cardinality(nl) + 1) |-> SubSeq(t, first(k), last(k))]

\* the numbers of the most recent RecentLimit points of a series of n points
MostRecent(n) == {k \in 1..n : k > n - RecentLimit}

\* C8: when the payload holds the series of the requested interval (each point
\* with its close price), the adapter
\* returns the header line followed by exactly one line "<timestamp>: $<close>"
\* for each of the most recent 10 points (all of them when there are fewer).
C8_MostRecentTenPoints ==
    (pc = "called" /\ call.tool = "fetch_realtime_data" /\ call.up.body = "series"
        /\ call.up.series.missing = 0) =>
        LET lines == SplitLines(result.value)
            n == call.up.series.n
        IN  /\ result.kind = "return"
            /\ lines[1] = Header(Ticker, call.interval)
            /\ Len(lines) = 1 + Cardinality(MostRecent(n))
            /\ {lines[i] : i \in 2..Len(lines)} = {FormatLine(Timestamp(k), Close(k)) : k \in MostRecent(n)}

(***************************************************************************)
(* Spec: the chat gateway (main.py) serving requests through the routing   *)
(* agent (agent.py), whose language model decides the tool calls           *)
(***************************************************************************)
\* instruction texts, as words
Queries ==
    {<<"IBM", "from", "2025-01-20", "to", "2025-01-21">>,
     <<"IBM", "price", "now">>,
     <<"IBM", "for", "tenant", "ACME", "from", "2025-01-20", "to", "2025-01-21">>,
     <<"what", "does", "fetch_daily_data", "do">>}

\* final answers of the language model; is_str is FALSE when the model returns
\* content that is no string (ChatResponse then fails validation)
Outputs ==
    {[is_str |-> TRUE, words |-> <<"IBM", "closed", "at", "230.50">>],
     [is_str |-> TRUE, words |-> <<"fetch_realtime_data", "gives", "live", "prices">>],
     [is_str |-> FALSE, words |-> <<>>]}

NoOutput == [is_str |-> TRUE, words |-> <<>>]
NoRequest == [query |-> <<>>, tenant_id |-> None]
NoScratch == [tool |-> None, tenant_id |-> None]
NoResponse == [status |-> 0, answer |-> <<>>, tool_used |-> None, detail |-> None]

\* tool calls per request, and points per intraday series, in the gateway specification
MaxSteps == 2
GatewayPoints == 1

\* ChatRequest: both fields are required strings
Requests == [query : Queries, tenant_id : Tenants]

\* the words of str(result) when intermediate_steps is empty: input, tenant_id, output
StrOfResult(req, out) == req.query \o <<req.tenant_id>> \o out.words

\* "name in str(result)"
Mentions(text, name) == \E i \in 1..Len(text) : text[i] = name

\* lines 21-30 of chat_endpoint: the tool_used label
ToolUsedLabel(req, out, intermediate_steps) ==
    IF intermediate_steps # <<>> THEN intermediate_steps[1].tool
    ELSE IF Mentions(StrOfResult(req, out), "fetch_realtime_data") THEN "fetch_realtime_data"
    ELSE IF Mentions(StrOfResult(req, out), "fetch_daily_data") THEN "fetch_daily_data"
    ELSE None

\* ChatEndpointExcept with a fixed detail in place of the exception's message
ChatEndpointExceptGeneric(e) ==
    [status |-> 500, answer |-> <<>>, tool_used |-> None, detail |-> "Internal Server Error"]

\* raise HTTPException(status_code=500, detail=str(e))
ChatEndpointExcept(e) == [status |-> 500, answer |-> <<>>, tool_used |-> None, detail |-> StrOf(e)]

\* return ChatResponse(answer=answer, tool_used=tool_used)
ChatEndpointReturn(req, out, intermediate_steps) ==
    [status |-> 200, answer |-> out.words,
     tool_used |-> ToolUsedLabel(req, out, intermediate_steps), detail |-> None]

\* the HTTP requests one run of an adapter sends: requests.post or requests.get, once
OutboundCalls(tool) == 1

\* the tenant ids the language model can put into a fetch_daily_data call: the
\* one the prompt gives it, one it reads in the instruction, or none (the tool
\* then uses its default)
TenantArguments(req) ==
    {req.tenant_id, DefaultTenant} \cup {req.query[i] : i \in {j \in 1..Len(req.query) : req.query[j] \in Tenants}}

Init ==
    /\ pc = "idle"
    /\ request = NoRequest /\ steps = <<>> /\ scratch = NoScratch
    /\ netCalls = 0 /\ agentCalls = 0
    /\ output = NoOutput /\ raised = None /\ response = NoResponse
    /\ call = NoCall /\ result = NoResult
    /\ answer = <<>> /\ fig = NoFig /\ ticks = <<>> /\ metrics = NoMetrics /\ usedB = FALSE
    /\ messages = <<>> /\ tool_used = None /\ histShown = <<>>
    /\ pairs = <<>>

\* POST /api/chat: chat_endpoint awaits agent_executor.ainvoke
Receive ==
    /\ pc = "idle"
    /\ request' \in Requests
    /\ steps' = <<>> /\ scratch' = NoScratch
    /\ netCalls' = 0 /\ agentCalls' = 1
    /\ output' = NoOutput /\ raised' = None /\ response' = NoResponse
    /\ pc' = "agent"
    /\ UNCHANGED <<chartVars, uiVars, pairs, adapterVars>>

\* an iteration of the executor in which the model asks for a tool call
AgentCallsTool ==
    /\ pc = "agent"
    /\ Len(steps) < MaxSteps
    /\ \/ \E t \in TenantArguments(request) : scratch' = [tool |-> "fetch_daily_data", tenant_id |-> t]
       \/ scratch' = [tool |-> "fetch_realtime_data", tenant_id |-> None]
    /\ pc' = "tool"
    /\ UNCHANGED <<request, steps, netCalls, agentCalls, output, raised, response,
                   chartVars, uiVars, pairs, adapterVars>>

\* the executor runs the tool: one outbound call; the returned string becomes
\* the observation of the step, an exception of the tool leaves the executor
\* and is caught by chat_endpoint
ToolRuns ==
    /\ pc = "tool"
    /\ netCalls' = netCalls + OutboundCalls(scratch.tool)
    /\ \E r \in IF scratch.tool = "fetch_daily_data"
                THEN UNION {fetch_daily_data(scratch.tenant_id, up) : up \in DailyUpstreams}
                ELSE {fetch_realtime_data(Ticker, i, up) : i \in Intervals, up \in RealtimeUpstreams(GatewayPoints)} :
        IF r.kind = "return"
        THEN /\ steps' = Append(steps, [tool |-> scratch.tool, tenant_id |-> scratch.tenant_id,
                                          path |-> IF scratch.tool = "fetch_daily_data"
                                                   THEN DailyPath(scratch.tenant_id) ELSE <<>>,
                                          observation |-> r.value])
             /\ pc' = "agent"
             /\ UNCHANGED <<raised, response>>
        ELSE /\ raised' = r.exc
             /\ response' = ChatEndpointExcept(r.exc)
             /\ pc' = "done"
             /\ UNCHANGED steps
    /\ scratch' = NoScratch
    /\ UNCHANGED <<request, agentCalls, output, chartVars, uiVars, pairs, adapterVars>>

\* the model gives its final answer; chat_endpoint builds the response (a
\* non-string answer fails the validation of ChatResponse inside the try block)
AgentFinishes ==
    /\ pc = "agent"
    /\ \E out \in Outputs :
        /\ output' = out
        /\ IF out.is_str
           THEN /\ raised' = None
                /\ response' = ChatEndpointReturn(request, out, steps)
           ELSE /\ raised' = "ValidationError"
                /\ response' = ChatEndpointExcept("ValidationError")
    /\ pc' = "done"
    /\ UNCHANGED <<request, steps, scratch, netCalls, agentCalls, chartVars, uiVars, pairs, adapterVars>>

\* the executor raises outside tool execution (prompt assembly, the model's API)
AgentRaises ==
    /\ pc = "agent"
    /\ raised' = "LLMError"
    /\ response' = ChatEndpointExcept("LLMError")
    /\ pc' = "done"
    /\ UNCHANGED <<request, steps, scratch, netCalls, agentCalls, output, chartVars, uiVars, pairs, adapterVars>>

\* the response is sent; the gateway keeps nothing of the request
Respond ==
    /\ pc = "done"
    /\ pc' = "idle"
    /\ request' = NoRequest /\ steps' = <<>> /\ scratch' = NoScratch
    /\ netCalls' = 0 /\ agentCalls' = 0
    /\ output' = NoOutput /\ raised' = None /\ response' = NoResponse
    /\ UNCHANGED <<chartVars, uiVars, pairs, adapterVars>>

Next == Receive \/ AgentCallsTool \/ ToolRuns \/ AgentFinishes \/ AgentRaises \/ Respond

Spec == Init /\ [][Next]_vars

\* C2: a request ends with 500 and the exception's message as detail when the
\* agent or a later step of the handler raised, and with 200 carrying the
\* agent's answer otherwise; the agent is invoked once per request.
C2_GatewayOutcome ==
    (pc = "done") =>
        /\ agentCalls = 1
        /\ response.status \in {200, 500}
        /\ raised # None => response.status = 500 /\ response.detail = StrOf(raised)
        /\ raised = None => response.status = 200 /\ response.answer = output.words
                            /\ response.detail = None

\* an exception of a tool reached the gateway after an earlier tool call
C2_Witness ==
    /\ pc = "done"
    /\ raised = "RecursionError"
    /\ response.status = 500
    /\ Len(steps) = 1

\* a request answered 200 after a tool call
C2_Witness200 ==
    /\ pc = "done"
    /\ response.status = 200
    /\ steps # <<>>

\* C3: every call of the historical tool carries the tenant id of the request,
\* in its argument and in the path of the upstream request.
C3_TenantThreaded ==
    /\ (pc = "tool" /\ scratch.tool = "fetch_daily_data") => scratch.tenant_id = request.tenant_id
    /\ \A i \in 1..Len(steps) :
        steps[i].tool = "fetch_daily_data" =>
            /\ steps[i].tenant_id = request.tenant_id
            /\ steps[i].path = DailyPath(request.tenant_id)

\* C4: in a 200 response tool_used names a tool of the trace when the trace is
\* not empty, and is null when the agent invoked no tool.
C4_ToolUsedRecordsTrace ==
    (pc = "done" /\ response.status = 200) =>
        /\ steps # <<>> => \E i \in 1..Len(steps) : response.tool_used = steps[i].tool
        /\ steps = <<>> => response.tool_used = None

\* C9: a request selects at most one tool and makes at most one outbound call
\* to an upstream data service.
C9_AtMostOneCall == netCalls <= 1 /\ Len(steps) <= 1

====
